---- MODULE Spec2Model ----
(***************************************************************************)
(* Model of ElectronSimulation                                             *)
(* (src/widgets/hall-effect-visualization/lib/electron-simulation.ts):     *)
(* the particle motion integrator of the Hall-effect visualisation, and of *)
(* the HallEffect3D component that drives it                               *)
(* (src/widgets/hall-effect-visualization/ui/HallEffect3D.tsx); and of the *)
(* earlier component with its own simulation (src/components/              *)
(* HallEffect3D.tsx, src/lib/HallEffectSimulation.ts), in variable panel.  *)
(*                                                                         *)
(* Numbers are fixed-point integers:                                       *)
(*   positions          1e-6   (x = 2.5 is 2500000)                        *)
(*   velocities         1e-2   (velocity.x = -0.5 is -50)                  *)
(*   current, field     1e-1   (current = 5 is 50, threshold 0.1 is 1)     *)
(*   deltaTime, time    1e-3   (0.033 s is 33)                             *)
(*   Math.random()      1e-2   (a draw r in [0,1) is 0..99)                *)
(*   B vector           1/500  (magneticField / 50)                        *)
(*   force              1/250000                                           *)
(*   scale              1e-6,  sine 1e-3,  emissive 1e-3                   *)
(* The drift along x is an exact integer in these units for every input    *)
(* enumerated below; the lateral advance is exact where current * field    *)
(* is a multiple of 62.5 and is otherwise rounded down to 1e-6.            *)
(***************************************************************************)
EXTENDS Integers, Sequences, FiniteSets, TLC

VARIABLES
    electrons,          \* this.electrons: sequence of Electron records
    lastCurrentVal,     \* this.lastCurrentVal (clamped current of the previous call)
    movementEnabled,    \* this.movementEnabled
    electronsMesh,      \* this.electronsMesh: [present, instances]
    electronsGlow,      \* this.electronsGlow: [present, instances]
    electronsMaterial,  \* this.electronsMaterial: [present, emissive, emissiveIntensity]
    scene,              \* meshes of the simulation held by the THREE.Scene
    call,               \* record of the last public call (history)
    steps,              \* number of updateElectrons calls made (history, bounded)
    widget,             \* the HallEffect3D component: its state and its closures
    panel               \* components/HallEffect3D and its HallEffectSimulation

simVars == <<electrons, lastCurrentVal, movementEnabled, electronsMesh,
             electronsGlow, electronsMaterial, scene, call, steps>>

vars == <<simVars, widget, panel>>

(***************************************************************************)
(* Bounds of the model                                                     *)
(***************************************************************************)
MaxSteps == 3
MaxSteadySteps == 22
MaxShortSteps == 2
MaxWideSteps == 8
MaxPanelSteps == 5
MaxPauseSteps == 6

(***************************************************************************)
(* Program constants                                                       *)
(***************************************************************************)
CurrentThreshold == 1
FieldThreshold == 1
AccFieldThreshold == 100
AccCurrentThreshold == 10
DtCap == 33
XWrap == 2500000
YLimit == 200000
ZLimit == 400000
InitVelocityX == -50
UnitScale == 1000000

\* IEEE NaN passed as an argument, and what arithmetic on it produces.
NaN == 999999999
\* lib/HallEffectSimulation.ts: BASE_VELOCITY 0.5 (in 0.05), RESET_POSITION_X,
\* the cap of update's dt (0.1 s), the clamps of y and z; and the cap of the
\* deltaTime animate computes in components/HallEffect3D.tsx (0.1 s).
BaseVelocity == 10
ResetPositionX == 2500000
HallDtCap == 100
HallYLimit == 200000
HallZLimit == 400000
FrameDtCap == 100

(***************************************************************************)
(* Inputs                                                                  *)
(***************************************************************************)
\* Math.random() draws: the least value 0.00 and a greatest value 0.99.
Rand == {0, 99}
\* The three draws of one sampled position (x, y, z): four triples in which
\* every pair of axes takes all four combinations of the two values.
Draw == {<<0, 0, 0>>, <<0, 99, 99>>, <<99, 0, 99>>, <<99, 99, 0>>}
NoDraw == <<0, 0, 0>>

\* initializeElectrons(count): one or two particles.
Counts == {1, 2}
\* General use: currentVal 0, 5 and 150 (far above the documented 0..15),
\* magneticFieldVal 0 and 100, deltaTime 0.033 s, time 0 s.
Currents == {0, 50, 1500}
Fields == {0, 1000}
DeltaTimes == {33}
Times == {0}
\* Around the current threshold: 0, 0.1, 0.2, 5, 15 (the documented top), 150.
EdgeCurrents == {0, 1, 2, 50, 150, 1500}
\* Invalid scalars: NaN and negative values beside valid ones.
RobustCurrents == {NaN, -50, 0, 50}
RobustFields == {NaN, -10, 0, 1000}
\* deltaTime of any sign, and NaN.
AnyDeltaTimes == {NaN, -10000, -16, 0, 33}
\* deltaTime >= 0 up to 10 s (a stalled tab).
StallDeltaTimes == {0, 16, 33, 10000}
\* The documented scenario: current 7, field 49.33 (as 49.3), deltaTime
\* 0.016 s, beside current 0 and 5, no field, and the capped deltaTime.
DriftCurrents == {0, 50, 70}
DriftFields == {0, 493}
DriftDeltaTimes == {16, 33}
\* The clock: time 0 s and 0.5 s.
ClockTimes == {0, 500}
\* Around the deflection threshold: field 0, 0.1, 2.5 and 100, with current
\* 5 and 15 (and 0, which freezes).
DeflectCurrents == {0, 50, 150}
DeflectFields == {0, 1, 25, 1000}
\* Beyond the slider: field 100 and 200, with current 15.
WideCurrents == {150}
WideFields == {1000, 2000}
\* Around the accumulation thresholds: current 1, 1.1 and 150, field 10,
\* 10.1 and 100.
AccCurrents == {10, 11, 1500}
AccFields == {100, 101, 1000}
\* The component: the particle count it is mounted with (18 in the code, one
\* here), the values the sliders are moved to (current 0, 2, 5; field 0,
\* 30), and the time between two animation frames.
WidgetCounts == {1}
SliderCurrents == {0, 20, 50}
SliderFields == {0, 300}
FrameDeltaTimes == {16, 33}
\* components/HallEffect3D: <<draw for x or jitter, draw for y>> of the one
\* electron, the values the sliders are moved to (current 0, 7, 14; field
\* 0, 49.3), the time since the previous frame (16 ms, or 5 s after a stall)
\* and the deltaTime passed to update directly.
PanelDraw == {<<0, 0>>, <<99, 50>>}
PanelCurrents == {0, 70, 140}
PanelFields == {0, 493}
PanelElapsed == {16, 5000}
HallDeltaTimes == {16, 5000}

(***************************************************************************)
(* JavaScript arithmetic on numbers that may be NaN                        *)
(***************************************************************************)
Add(a, b) == IF a = NaN \/ b = NaN THEN NaN ELSE a + b

Mul(a, b) == IF a = NaN \/ b = NaN THEN NaN ELSE a * b

Less(a, b) == a # NaN /\ b # NaN /\ a < b

\* v || 0
OrZero(v) == IF v = NaN \/ v = 0 THEN 0 ELSE v

\* Math.max(a, b)
MathMax(a, b) == IF a = NaN \/ b = NaN THEN NaN ELSE IF a > b THEN a ELSE b

\* Math.min(a, b)
MathMin(a, b) == IF a = NaN \/ b = NaN THEN NaN ELSE IF a < b THEN a ELSE b

\* THREE.MathUtils.clamp(v, lo, hi) = Math.max(lo, Math.min(hi, v))
Clamp(v, lo, hi) == MathMax(lo, MathMin(hi, v))

\* Mutant of ClampInput: the Math.max(0, ...) is missing.
ClampInputNoMax(v) == OrZero(v)

\* Math.max(0, v || 0)
ClampInput(v) == MathMax(0, OrZero(v))

\* Mutant of CapDeltaTime: the cap is 0.1 s.
CapDeltaTimeTenth(deltaTime) == MathMin(deltaTime, 100)

\* Math.min(deltaTime, 0.033)
CapDeltaTime(deltaTime) == MathMin(deltaTime, DtCap)

\* Math.sin in 1e-3, argument in 1e-3 rad (Bhaskara's rational approximation).
SinMilli(p) ==
    LET q == p % 6284
        h == IF q < 3142 THEN q ELSE q - 3142
        n == 16 * h * (3142 - h)
        d == 5 * 3142 * 3142 - 4 * h * (3142 - h)
        s == (n * 10) \div (d \div 100)
    IN IF q < 3142 THEN s ELSE 0 - s

\* THREE.Vector3.crossVectors(a, b)
CrossVectors(a, b) ==
    << Add(Mul(a[2], b[3]), Mul(-1, Mul(a[3], b[2]))),
       Add(Mul(a[3], b[1]), Mul(-1, Mul(a[1], b[3]))),
       Add(Mul(a[1], b[2]), Mul(-1, Mul(a[2], b[1]))) >>


\* a / b for a product that b divides (NaN propagates)
Div(a, b) == IF a = NaN THEN NaN ELSE a \div b

(***************************************************************************)
(* The simulation                                                          *)
(***************************************************************************)
NoMesh == [present |-> FALSE, instances |-> <<>>]

NoMaterial == [present |-> FALSE, emissive |-> <<0, 0, 0>>, emissiveIntensity |-> 0]

\* new MeshStandardMaterial({emissive: 0x1e40af, emissiveIntensity: 0.7})
NewMaterial == [present |-> TRUE, emissive |-> <<118, 251, 686>>, emissiveIntensity |-> 700]

\* History of the calls: the name of the last public call; the arguments of
\* the last updateElectrons (deltaTime, currentVal, magneticFieldVal, time);
\* lastCurrentVal as that call found it; whether it integrated; how often it
\* ran resetElectronPositions; the electrons it wrapped; the electrons
\* wrapped since the last initializeElectrons, and the count given to it;
\* whether that initializeElectrons found a batch to dispose; how often the
\* call ran setMatrixAt on the electron mesh for each index.
NoCall == [op |-> "none", args |-> <<0, 0, 0, 0>>, before |-> 0, flowing |-> FALSE,
           resets |-> 0, wrapped |-> {}, everWrapped |-> {}, count |-> 0,
           replaced |-> FALSE, writes |-> 0]

\* The position sampled by initializeElectrons and by resetElectronPositions:
\* (random*4 - 2, random*0.2 - 0.1, random*0.4 - 0.2).
SamplePosition(d) ==
    << d[1] * 40000 - 2000000, d[2] * 2000 - 100000, d[3] * 4000 - 200000 >>

\* One element of the array built by initializeElectrons.
NewElectron(i, d) ==
    [ id |-> i,
      position |-> SamplePosition(d),
      velocity |-> <<InitVelocityX, 0, 0>>,
      initialPosition |-> SamplePosition(d),
      trailPoints |-> <<>> ]

\* Array.from({ length: count }, (_, i) => ...), ids 0 .. count-1.
NewElectrons(count, draws) == [i \in 1..count |-> NewElectron(i - 1, draws[i])]

\* dummy.position.copy(position); dummy.scale.set(s, s, s); setMatrixAt(index, ...)
Published(els, scaleOf) ==
    [i \in 1..Len(els) |-> [position |-> els[i].position, scale |-> scaleOf[i]]]

\* Mutant of WriteMesh: setMatrixAt is not called.
WriteMeshSkipped(mesh, els, scaleOf) == mesh

\* setMatrixAt on a mesh that may be null; instances beyond the mesh's own stay.
WriteMesh(mesh, els, scaleOf) ==
    IF mesh.present
    THEN [mesh EXCEPT !.instances =
            [i \in 1..Len(mesh.instances) |->
                IF i <= Len(els) THEN Published(els, scaleOf)[i] ELSE mesh.instances[i]]]
    ELSE mesh

Ones(els) == [i \in 1..Len(els) |-> UnitScale]

\* if (this.electronsMesh) this.electronsMesh.setMatrixAt(index, ...): the
\* writes one pass over the electrons makes to each index.
Writes(mesh) == IF mesh.present THEN 1 ELSE 0

\* Mutant of ResetElectronPositions: the last particle is dropped.
\* Mutant of ResetElectronPositions: the particles stay where they are.
ResetKeepsPositions(els, draws) == els
ResetDropsLast(els, draws) ==
    [i \in 1..(Len(els) - 1) |-> [els[i] EXCEPT !.position = SamplePosition(draws[i])]]

\* resetElectronPositions: the positions it sets on this.electrons.
ResetElectronPositions(els, draws) ==
    [i \in 1..Len(els) |-> [els[i] EXCEPT !.position = SamplePosition(draws[i])]]

\* Mutant of ShowEdgeAccumulation: the thresholds themselves count.
ShowEdgeAccumulationInclusive(magneticField, current) ==
    magneticField >= AccFieldThreshold /\ current >= AccCurrentThreshold

\* showEdgeAccumulation
ShowEdgeAccumulation(magneticField, current) ==
    magneticField > AccFieldThreshold /\ current > AccCurrentThreshold

\* Mutant of LateralLimit: the widening is magneticField / 100.
LateralLimitTenfold(magneticField, acc) ==
    IF acc THEN ZLimit + magneticField * 1000 ELSE ZLimit

\* Mutant of LateralLimit: the ordinary limit is 0.1.
LateralLimitNarrow(magneticField, acc) ==
    IF acc THEN ZLimit + magneticField * 100 ELSE 100000

\* The lateral limit of the clamp at the end of the per-electron loop.
LateralLimit(magneticField, acc) ==
    IF acc THEN ZLimit + magneticField * 100 ELSE ZLimit

\* x < -2.5 after the advance
Wraps(e, dt, current) ==
    Less(Add(e.position[1], Mul(Mul(0 - current, dt), 15)), 0 - XWrap)

\* Mutant of LateralAdvance: no threshold on the field.
LateralAdvanceNoThreshold(velocity, dt, magneticField) ==
    LET B     == <<0, 0 - magneticField, 0>>
        cross == CrossVectors(velocity, B)
        force == <<Mul(-1, cross[1]), Mul(-1, cross[2]), Mul(-1, cross[3])>>
    IN Div(Mul(Mul(force[3], dt), 12), 2500)

\* Mutant of LateralAdvance: the force keeps the sign of the cross product.
LateralAdvanceUp(velocity, dt, magneticField) ==
    LET B     == <<0, 0 - magneticField, 0>>
        cross == CrossVectors(velocity, B)
    IN IF magneticField > FieldThreshold
       THEN Div(Mul(Mul(cross[3], dt), 12), 2500)
       ELSE 0

\* B = (0, -1, 0) * (magneticField / 50); force = (velocity x B) * (-0.2);
\* if (magneticField > 0.1) position.z += force.z * dt * 1.2: what is added.
LateralAdvance(velocity, dt, magneticField) ==
    LET B     == <<0, 0 - magneticField, 0>>
        cross == CrossVectors(velocity, B)
        force == <<Mul(-1, cross[1]), Mul(-1, cross[2]), Mul(-1, cross[3])>>
    IN IF magneticField > FieldThreshold
       THEN Div(Mul(Mul(force[3], dt), 12), 2500)
       ELSE 0

\* Mutant of FlowElectron: a particle that wraps keeps its y and z.
FlowElectronNoResample(e, dt, current, magneticField, acc, d) ==
    LET velocity == <<0 - current, e.velocity[2], e.velocity[3]>>
        B        == <<0, 0 - magneticField, 0>>
        cross    == CrossVectors(velocity, B)
        force    == <<Mul(-1, cross[1]), Mul(-1, cross[2]), Mul(-1, cross[3])>>
        x1 == Add(e.position[1], Mul(Mul(velocity[1], dt), 15))
        z1 == IF magneticField > FieldThreshold
              THEN Add(e.position[3], Div(Mul(Mul(force[3], dt), 12), 2500))
              ELSE e.position[3]
        y1 == Add(e.position[2], d[1] - 50)
        wrap == Less(x1, 0 - XWrap)
        x2 == IF wrap THEN XWrap ELSE x1
        lim == LateralLimit(magneticField, acc)
    IN [e EXCEPT !.velocity = velocity,
                 !.position = << x2, Clamp(y1, 0 - YLimit, YLimit),
                                 Clamp(z1, 0 - lim, lim) >>]

\* Mutant of FlowElectron: the advance along x uses the gain 1.2 of the
\* lateral advance.
FlowElectronLateralGain(e, dt, current, magneticField, acc, d) ==
    LET velocity == <<0 - current, e.velocity[2], e.velocity[3]>>
        B        == <<0, 0 - magneticField, 0>>
        cross    == CrossVectors(velocity, B)
        force    == <<Mul(-1, cross[1]), Mul(-1, cross[2]), Mul(-1, cross[3])>>
        x1 == Add(e.position[1], Mul(Mul(velocity[1], dt), 12))
        z1 == IF magneticField > FieldThreshold
              THEN Add(e.position[3], Div(Mul(Mul(force[3], dt), 12), 2500))
              ELSE e.position[3]
        y1 == Add(e.position[2], d[1] - 50)
        wrap == Less(x1, 0 - XWrap)
        x2 == IF wrap THEN XWrap ELSE x1
        y2 == IF wrap THEN d[2] * 2000 - 100000 ELSE y1
        z2 == IF wrap
              THEN IF acc THEN d[3] * 2000 - 400000 ELSE d[3] * 4000 - 200000
              ELSE z1
        lim == LateralLimit(magneticField, acc)
    IN [e EXCEPT !.velocity = velocity,
                 !.position = << x2, Clamp(y2, 0 - YLimit, YLimit),
                                 Clamp(z2, 0 - lim, lim) >>]

\* The body of the forEach of a flowing call, for one electron.
\* d = <<jitter draw, draw for y on wrap, draw for z on wrap>>.
FlowElectron(e, dt, current, magneticField, acc, d) ==
    LET velocity == <<0 - current, e.velocity[2], e.velocity[3]>>
        x1 == Add(e.position[1], Mul(Mul(velocity[1], dt), 15))
        z1 == Add(e.position[3], LateralAdvance(velocity, dt, magneticField))
        y1 == Add(e.position[2], d[1] - 50)
        wrap == Less(x1, 0 - XWrap)
        x2 == IF wrap THEN XWrap ELSE x1
        y2 == IF wrap THEN d[2] * 2000 - 100000 ELSE y1
        z2 == IF wrap
              THEN IF acc THEN d[3] * 2000 - 400000 ELSE d[3] * 4000 - 200000
              ELSE z1
        lim == LateralLimit(magneticField, acc)
    IN [e EXCEPT !.velocity = velocity,
                 !.position = << x2, Clamp(y2, 0 - YLimit, YLimit),
                                 Clamp(z2, 0 - lim, lim) >>]

\* 1 + sin(time * 2 + id * 0.2) * 0.05
FrozenPulse(time, id) == UnitScale + SinMilli(time * 2 + id * 200) * 50

\* 1 + sin(time * 3 + id * 0.5) * 0.1
FlowPulse(time, id) == UnitScale + SinMilli(time * 3 + id * 500) * 100

\* emissive.setRGB(0.1, 0.1, 0.5); emissiveIntensity = 0.2 (inside the forEach)
DimMaterial(mat, els) ==
    IF mat.present /\ Len(els) > 0
    THEN [mat EXCEPT !.emissive = <<100, 100, 500>>, !.emissiveIntensity = 200]
    ELSE mat

\* emissive.setRGB(0.1, 0.3, 0.8); emissiveIntensity = 0.3 + 0.5 * (current / 5) * 0.5
FlowMaterial(mat, current) ==
    IF mat.present
    THEN [mat EXCEPT !.emissive = <<100, 300, 800>>,
                     !.emissiveIntensity = 300 + 5 * current]
    ELSE mat


\* Mutant of CurrentTransitionToZero: no drop is ever detected.
CurrentTransitionToZeroNever(last, current) == FALSE

\* Mutant of CurrentTransitionToZero: current < 0.1.
CurrentTransitionToZeroStrict(last, current) ==
    last > CurrentThreshold /\ current < CurrentThreshold

\* Mutant of CurrentTransitionToZero: every frame the current is <= 0.1.
CurrentTransitionToZeroEveryFrame(last, current) ==
    current <= CurrentThreshold

\* Mutant of CurrentTransitionToZero: any crossing of the threshold.
CurrentTransitionToZeroAnyCrossing(last, current) ==
    (last > CurrentThreshold) # (current > CurrentThreshold)

\* lastCurrentVal > 0.1 && current <= 0.1
CurrentTransitionToZero(last, current) ==
    last > CurrentThreshold /\ current <= CurrentThreshold

\* lastCurrentVal <= 0.1 && current > 0.1
CurrentTransitionFromZero(last, current) ==
    last <= CurrentThreshold /\ current > CurrentThreshold

\* The Math.random() results one electron's part of a call reads:
\* three in resetElectronPositions, the jitter in a flowing call, and the
\* two resamples when the electron wraps (its jitter is then overwritten).
DrawsRead(e, toZero, frozen, dt, current) ==
    IF toZero THEN Draw
    ELSE IF frozen THEN {NoDraw}
    ELSE IF Wraps(e, dt, current) THEN {0} \X Rand \X Rand
    ELSE Rand \X {0} \X {0}

RECURSIVE SeqsOver(_)
\* All sequences s with s[i] \in S[i].
SeqsOver(S) ==
    IF Len(S) = 0 THEN {<<>>}
    ELSE {Append(s, x) : s \in SeqsOver(SubSeq(S, 1, Len(S) - 1)), x \in S[Len(S)]}

\* Mutant of UpdateResult: the time argument is integrated as deltaTime.
UpdateResultClockAsDelta(deltaTime, currentVal, magneticFieldVal, time, draws) ==
    LET current       == ClampInput(currentVal)
        magneticField == ClampInput(magneticFieldVal)
        dt            == CapDeltaTime(time)
        currentTransitionToZero == CurrentTransitionToZero(lastCurrentVal, current)
        currentTransitionFromZero == CurrentTransitionFromZero(lastCurrentVal, current)
        \* if (currentTransitionToZero) resetElectronPositions()
        \* else if (currentTransitionFromZero) resumeElectronMovement()
        els1  == IF currentTransitionToZero
                 THEN ResetElectronPositions(electrons, draws) ELSE electrons
        mesh1 == IF currentTransitionToZero
                 THEN WriteMesh(electronsMesh, els1, Ones(els1)) ELSE electronsMesh
        glow1 == IF currentTransitionToZero
                 THEN WriteMesh(electronsGlow, els1, Ones(els1)) ELSE electronsGlow
        me1   == IF currentTransitionToZero THEN FALSE
                 ELSE IF currentTransitionFromZero THEN TRUE ELSE movementEnabled
        \* if (!this.movementEnabled && current > 0.1) resumeElectronMovement()
        me2   == IF ~me1 /\ current > CurrentThreshold THEN TRUE ELSE me1
        acc   == ShowEdgeAccumulation(magneticField, current)
        els2  == [i \in 1..Len(els1) |->
                    FlowElectron(els1[i], dt, current, magneticField, acc, draws[i])]
        frozenScale == [i \in 1..Len(els1) |-> FrozenPulse(time, els1[i].id)]
        flowScale   == [i \in 1..Len(els1) |-> FlowPulse(time, els1[i].id)]
        resets == IF currentTransitionToZero THEN 1 ELSE 0
        wrapped == {i \in 1..Len(els1) : Wraps(els1[i], dt, current)}
        still == [call EXCEPT !.op = "update",
                              !.args = <<deltaTime, currentVal, magneticFieldVal, time>>,
                              !.before = lastCurrentVal, !.flowing = FALSE,
                              !.resets = resets, !.wrapped = {},
                              !.replaced = FALSE,
                              !.writes = resets * Writes(electronsMesh)]
        passed == [still EXCEPT !.writes = @ + Writes(electronsMesh)]
    IN  IF current <= CurrentThreshold
        THEN \* only the visual effects are updated
             [ electrons |-> els1, lastCurrentVal |-> current, movementEnabled |-> me1,
               electronsMesh |-> WriteMesh(mesh1, els1, frozenScale),
               electronsGlow |-> WriteMesh(glow1, els1, frozenScale),
               electronsMaterial |-> DimMaterial(electronsMaterial, els1),
               call |-> passed ]
        ELSE IF ~me2
        THEN \* if (!this.movementEnabled) return
             [ electrons |-> els1, lastCurrentVal |-> current, movementEnabled |-> me2,
               electronsMesh |-> mesh1, electronsGlow |-> glow1,
               electronsMaterial |-> electronsMaterial,
               call |-> still ]
        ELSE [ electrons |-> els2, lastCurrentVal |-> current, movementEnabled |-> me2,
               electronsMesh |-> WriteMesh(mesh1, els2, flowScale),
               electronsGlow |-> WriteMesh(glow1, els2, flowScale),
               electronsMaterial |-> FlowMaterial(electronsMaterial, current),
               call |-> [passed EXCEPT !.flowing = TRUE, !.wrapped = wrapped,
                                      !.everWrapped = call.everWrapped \cup wrapped] ]

\* updateElectrons(this.electrons, deltaTime, currentVal, magneticFieldVal, time)
\* with the Math.random() results draws[i] for electron i: the state it leaves.
UpdateResult(deltaTime, currentVal, magneticFieldVal, time, draws) ==
    LET current       == ClampInput(currentVal)
        magneticField == ClampInput(magneticFieldVal)
        dt            == CapDeltaTime(deltaTime)
        currentTransitionToZero == CurrentTransitionToZero(lastCurrentVal, current)
        currentTransitionFromZero == CurrentTransitionFromZero(lastCurrentVal, current)
        \* if (currentTransitionToZero) resetElectronPositions()
        \* else if (currentTransitionFromZero) resumeElectronMovement()
        els1  == IF currentTransitionToZero
                 THEN ResetElectronPositions(electrons, draws) ELSE electrons
        mesh1 == IF currentTransitionToZero
                 THEN WriteMesh(electronsMesh, els1, Ones(els1)) ELSE electronsMesh
        glow1 == IF currentTransitionToZero
                 THEN WriteMesh(electronsGlow, els1, Ones(els1)) ELSE electronsGlow
        me1   == IF currentTransitionToZero THEN FALSE
                 ELSE IF currentTransitionFromZero THEN TRUE ELSE movementEnabled
        \* if (!this.movementEnabled && current > 0.1) resumeElectronMovement()
        me2   == IF ~me1 /\ current > CurrentThreshold THEN TRUE ELSE me1
        acc   == ShowEdgeAccumulation(magneticField, current)
        els2  == [i \in 1..Len(els1) |->
                    FlowElectron(els1[i], dt, current, magneticField, acc, draws[i])]
        frozenScale == [i \in 1..Len(els1) |-> FrozenPulse(time, els1[i].id)]
        flowScale   == [i \in 1..Len(els1) |-> FlowPulse(time, els1[i].id)]
        resets == IF currentTransitionToZero THEN 1 ELSE 0
        wrapped == {i \in 1..Len(els1) : Wraps(els1[i], dt, current)}
        still == [call EXCEPT !.op = "update",
                              !.args = <<deltaTime, currentVal, magneticFieldVal, time>>,
                              !.before = lastCurrentVal, !.flowing = FALSE,
                              !.resets = resets, !.wrapped = {},
                              !.replaced = FALSE,
                              !.writes = resets * Writes(electronsMesh)]
        passed == [still EXCEPT !.writes = @ + Writes(electronsMesh)]
    IN  IF current <= CurrentThreshold
        THEN \* only the visual effects are updated
             [ electrons |-> els1, lastCurrentVal |-> current, movementEnabled |-> me1,
               electronsMesh |-> WriteMesh(mesh1, els1, frozenScale),
               electronsGlow |-> WriteMesh(glow1, els1, frozenScale),
               electronsMaterial |-> DimMaterial(electronsMaterial, els1),
               call |-> passed ]
        ELSE IF ~me2
        THEN \* if (!this.movementEnabled) return
             [ electrons |-> els1, lastCurrentVal |-> current, movementEnabled |-> me2,
               electronsMesh |-> mesh1, electronsGlow |-> glow1,
               electronsMaterial |-> electronsMaterial,
               call |-> still ]
        ELSE [ electrons |-> els2, lastCurrentVal |-> current, movementEnabled |-> me2,
               electronsMesh |-> WriteMesh(mesh1, els2, flowScale),
               electronsGlow |-> WriteMesh(glow1, els2, flowScale),
               electronsMaterial |-> FlowMaterial(electronsMaterial, current),
               call |-> [passed EXCEPT !.flowing = TRUE, !.wrapped = wrapped,
                                      !.everWrapped = call.everWrapped \cup wrapped] ]

\* The draws a call reads, one triple per electron.
UpdateDraws(deltaTime, currentVal) ==
    LET current == ClampInput(currentVal)
        toZero  == CurrentTransitionToZero(lastCurrentVal, current)
    IN SeqsOver([i \in 1..Len(electrons) |->
                   DrawsRead(electrons[i], toZero, current <= CurrentThreshold,
                             CapDeltaTime(deltaTime), current)])

\* Every state a call with these arguments can leave.
UpdateResults(deltaTime, currentVal, magneticFieldVal, time) ==
    {UpdateResult(deltaTime, currentVal, magneticFieldVal, time, d) :
        d \in UpdateDraws(deltaTime, currentVal)}

(***************************************************************************)
(* The HallEffect3D component                                              *)
(***************************************************************************)
\* useState(2), useState(30); nothing mounted, no closure made, no effect
\* waiting; by: who called updateElectrons last.
NoWidget == [ mounted |-> FALSE, current |-> 20, magneticField |-> 300,
              frame |-> <<20, 300>>, pending |-> FALSE, by |-> "none",
              initialized |-> FALSE, raf |-> FALSE, refLen |-> 0 ]

\* The simulation a constructor call leaves: no electrons, current 7,
\* field 49.33 (49.3 here), running.
NoHall == [ electrons |-> <<>>, current |-> 70, magneticField |-> 493,
            isRunning |-> TRUE ]

NoPanelCall == [ op |-> "none", dt |-> 0, before |-> <<>>, running |-> TRUE,
                 updates |-> 0, skipped |-> 0, since |-> 0 ]

\* The component before its first commit: useState(7), useState(49.33),
\* useState(true); no frame requested.  requests is the set of frame
\* callbacks the browser holds, each with the effect run that made it and
\* the isRunning its closure holds; frameId and firstId are the last and
\* the first id the current run of the animation effect was given.
NoPanel == [ sim |-> NoHall, mounted |-> FALSE,
             current |-> 70, magneticField |-> 493, isRunning |-> TRUE,
             requests |-> {}, frameId |-> 0, firstId |-> 0, effect |-> 0,
             nextId |-> 1, last |-> NoPanelCall, n |-> 0 ]

(***************************************************************************)
(* Actions                                                                 *)
(***************************************************************************)
\* constructor(scene)
Init ==
    /\ electrons = <<>>
    /\ lastCurrentVal = 0
    /\ movementEnabled = TRUE
    /\ electronsMesh = NoMesh
    /\ electronsGlow = NoMesh
    /\ electronsMaterial = NoMaterial
    /\ scene = [mesh |-> 0, glow |-> 0]
    /\ call = NoCall
    /\ steps = 0
    /\ widget = NoWidget
    /\ panel = NoPanel

\* Mutant of SceneAfterDispose: scene.remove is never called.
SceneKept == scene

\* dispose(): what it leaves of the scene
SceneAfterDispose ==
    [ mesh |-> IF electronsMesh.present THEN scene.mesh - 1 ELSE scene.mesh,
      glow |-> IF electronsGlow.present THEN scene.glow - 1 ELSE scene.glow ]

\* dispose()
Dispose ==
    /\ electrons' = <<>>
    /\ electronsMesh' = NoMesh
    /\ electronsGlow' = NoMesh
    /\ electronsMaterial' = NoMaterial
    /\ scene' = SceneAfterDispose
    /\ call' = [NoCall EXCEPT !.op = "dispose", !.args = call.args]
    /\ UNCHANGED <<lastCurrentVal, movementEnabled, steps>>

\* initializeElectrons(count)
InitializeElectrons(count) ==
    \E draws \in [1..count -> Draw] :
        LET els == NewElectrons(count, draws)
            m   == [present |-> TRUE, instances |-> Published(els, Ones(els))]
        IN /\ electrons' = els
           /\ electronsMesh' = m
           /\ electronsGlow' = m
           /\ electronsMaterial' = NewMaterial
           /\ scene' = [mesh |-> SceneAfterDispose.mesh + 1,
                        glow |-> SceneAfterDispose.glow + 1]
           /\ movementEnabled' = TRUE
           /\ call' = [NoCall EXCEPT !.op = "initialize", !.args = call.args,
                                     !.count = count,
                                     !.replaced = electronsMesh.present,
                                     !.writes = 1]
           /\ UNCHANGED <<lastCurrentVal, steps>>

\* updateElectrons(getElectrons(), deltaTime, currentVal, magneticFieldVal, time)
UpdateElectrons(deltaTime, currentVal, magneticFieldVal, time) ==
    \E r \in UpdateResults(deltaTime, currentVal, magneticFieldVal, time) :
        /\ electrons' = r.electrons
        /\ lastCurrentVal' = r.lastCurrentVal
        /\ movementEnabled' = r.movementEnabled
        /\ electronsMesh' = r.electronsMesh
        /\ electronsGlow' = r.electronsGlow
        /\ electronsMaterial' = r.electronsMaterial
        /\ call' = r.call
        /\ steps' = steps + 1
        /\ UNCHANGED scene

\* Any call of the public interface: initializeElectrons with a count in N,
\* updateElectrons with arguments from the given sets, dispose.  Updates
\* are followed maxSteps deep on one particle and one less on two.
NextWith(N, C, F, D, T, maxSteps) ==
    \/ /\ \E n \in N : InitializeElectrons(n)
       /\ UNCHANGED <<widget, panel>>
    \/ /\ steps < maxSteps
       /\ steps + Len(electrons) <= maxSteps
       /\ \E dt \in D, c \in C, b \in F, t \in T : UpdateElectrons(dt, c, b, t)
       /\ UNCHANGED <<widget, panel>>
    \/ /\ Dispose
       /\ UNCHANGED <<widget, panel>>

Next == NextWith(Counts, Currents, Fields, DeltaTimes, Times, MaxSteps)

Spec == Init /\ [][Next]_vars

\* Currents around the freeze threshold, no field.
NextEdges == NextWith(Counts, EdgeCurrents, {0}, DeltaTimes, Times, MaxSteps)

SpecEdges == Init /\ [][NextEdges]_vars

\* current = 5 and magneticField = 0 on every call.
NextSteady == NextWith({1}, {50}, {0}, DeltaTimes, Times, MaxSteadySteps)

SpecSteady == Init /\ [][NextSteady]_vars

\* NaN and negative currents and fields.
NextRobust == NextWith(Counts, RobustCurrents, RobustFields, DeltaTimes, Times, MaxShortSteps)

SpecRobust == Init /\ [][NextRobust]_vars

\* deltaTime of any sign.
NextAnyDt == NextWith(Counts, {0, 50}, {0}, AnyDeltaTimes, Times, MaxShortSteps)

SpecAnyDt == Init /\ [][NextAnyDt]_vars

\* deltaTime below, at and far above the cap.
NextStall == NextWith(Counts, {50, 1500}, {1000}, StallDeltaTimes, Times, MaxShortSteps)

SpecStall == Init /\ [][NextStall]_vars

\* The documented drift scenario.
NextDrift == NextWith(Counts, DriftCurrents, DriftFields, DriftDeltaTimes, Times, MaxShortSteps)

SpecDrift == Init /\ [][NextDrift]_vars


\* Currents and fields at and beside the accumulation thresholds.
NextAccumulation == NextWith(Counts, AccCurrents, AccFields, DeltaTimes, Times, MaxShortSteps)

SpecAccumulation == Init /\ [][NextAccumulation]_vars

\* Calls at two values of the clock.
NextClock == NextWith(Counts, {0, 50}, {0, 1000}, DeltaTimes, ClockTimes, MaxShortSteps)

SpecClock == Init /\ [][NextClock]_vars

NextDeflect == NextWith(Counts, DeflectCurrents, DeflectFields, DriftDeltaTimes, Times, MaxShortSteps)

SpecDeflect == Init /\ [][NextDeflect]_vars

NextWide == NextWith({1}, WideCurrents, WideFields, DeltaTimes, Times, MaxWideSteps)

SpecWide == Init /\ [][NextWide]_vars

\* The first commit of HallEffect3D: the mount effect builds the simulation
\* and calls initializeElectrons(); the animation effect starts the loop,
\* whose animate closes over current and magneticField of this render; the
\* parameter effect is run next, in the same commit.
WidgetMount(count) ==
    /\ ~widget.mounted /\ widget.by = "none"
    /\ InitializeElectrons(count)
    /\ widget' = [widget EXCEPT !.mounted = TRUE,
                                !.frame = <<widget.current, widget.magneticField>>,
                                !.pending = TRUE,
                                !.initialized = TRUE, !.raf = TRUE,
                                !.refLen = count]

\* handleCurrentChange(value): setCurrent(Math.max(0, value)); a changed
\* state re-renders and queues the parameter effect.
HandleCurrentChange(value) ==
    /\ widget.mounted /\ ~widget.pending
    /\ widget' = [widget EXCEPT !.current = MathMax(0, value),
                                !.pending = (MathMax(0, value) # widget.current)]
    /\ UNCHANGED <<electrons, lastCurrentVal, movementEnabled, electronsMesh,
                   electronsGlow, electronsMaterial, scene, call, steps>>

\* handleMagneticFieldChange(value)
HandleMagneticFieldChange(value) ==
    /\ widget.mounted /\ ~widget.pending
    /\ widget' = [widget EXCEPT !.magneticField = MathMax(0, value),
                                !.pending = (MathMax(0, value) # widget.magneticField)]
    /\ UNCHANGED <<electrons, lastCurrentVal, movementEnabled, electronsMesh,
                   electronsGlow, electronsMaterial, scene, call, steps>>

\* The effect on [current, magneticField]: one updateElectrons call with
\* deltaTime 0.016 and the values of the render that queued it.
ParameterEffect(time) ==
    /\ widget.pending
    /\ IF widget.initialized /\ widget.refLen > 0
       THEN UpdateElectrons(16, MathMax(0, widget.current),
                            MathMax(0, widget.magneticField), time)
       ELSE UNCHANGED <<electrons, lastCurrentVal, movementEnabled, electronsMesh,
                        electronsGlow, electronsMaterial, scene, call, steps>>
    /\ widget' = [widget EXCEPT !.pending = FALSE, !.by = "effect"]

\* animate(): the callback of a requested frame, with the current and
\* magneticField its closure holds.  It returns without a new request when
\* isInitializedRef is false; otherwise it steps the simulation if
\* electronsRef holds particles, and requests the next frame.
Animate(deltaTime, time) ==
    /\ widget.raf /\ ~widget.pending
    /\ IF ~widget.initialized
       THEN /\ widget' = [widget EXCEPT !.raf = FALSE]
            /\ UNCHANGED <<electrons, lastCurrentVal, movementEnabled, electronsMesh,
                           electronsGlow, electronsMaterial, scene, call, steps>>
       ELSE IF widget.refLen > 0
       THEN /\ UpdateElectrons(deltaTime, MathMax(0, widget.frame[1]),
                               MathMax(0, widget.frame[2]), time)
            /\ widget' = [widget EXCEPT !.by = "frame"]
       ELSE UNCHANGED vars

\* Mutant of WidgetAfterCleanup: the frame request and isInitializedRef
\* survive the cleanups.
WidgetCleanupLeavesLoop(w) ==
    [w EXCEPT !.mounted = FALSE, !.by = "cleanup"]

\* The refs after the cleanups of the mount effect and of the animation
\* effect: isInitializedRef.current = false, cancelAnimationFrame(rafId).
\* electronsRef keeps the array it was given.
WidgetAfterCleanup(w) ==
    [w EXCEPT !.mounted = FALSE, !.initialized = FALSE, !.raf = FALSE,
              !.by = "cleanup"]

\* Unmount: the cleanup of the mount effect disposes the simulation, then
\* the cleanup of the animation effect cancels the requested frame.  Effects
\* queued by the last render have run before.
WidgetUnmount ==
    /\ widget.mounted /\ ~widget.pending
    /\ Dispose
    /\ widget' = WidgetAfterCleanup(widget)

\* The component in use: mounted once, sliders moved, frames drawn, unmounted.
NextWidget ==
    \/ /\ \E n \in WidgetCounts : WidgetMount(n)
       /\ UNCHANGED panel
    \/ /\ steps < MaxSteps
       /\ \E v \in SliderCurrents : HandleCurrentChange(v)
       /\ UNCHANGED panel
    \/ /\ steps < MaxSteps
       /\ \E v \in SliderFields : HandleMagneticFieldChange(v)
       /\ UNCHANGED panel
    \/ /\ \E t \in Times : ParameterEffect(t)
       /\ UNCHANGED panel
    \/ /\ steps < MaxSteps
       /\ \E dt \in FrameDeltaTimes, t \in Times : Animate(dt, t)
       /\ UNCHANGED panel
    \/ /\ WidgetUnmount
       /\ UNCHANGED panel

SpecWidget == Init /\ [][NextWidget]_vars

(***************************************************************************)
(* The earlier component, components/HallEffect3D.tsx, and its simulation, *)
(* lib/HallEffectSimulation.ts.  Units as above, except that velocities    *)
(* are in 0.05 (velocity.x = -0.5 * current is -current in tenths); an     *)
(* advance along x is current * dt * 50 millionths and an advance along z  *)
(* is current * field^2 * dt / 20 millionths.                              *)
(***************************************************************************)
\* initializeElectrons(count): dispose(), then count electrons at
\* (random * 4 - 2, random * 0.2 - 0.1, 0) with velocity (-0.5, 0, 0).
\* draws[i] = <<draw for x, draw for y>>.
HallInitializeElectrons(s, draws) ==
    [s EXCEPT !.electrons =
        [i \in 1..Len(draws) |->
            [ id |-> i - 1,
              position |-> << draws[i][1] * 40000 - 2000000,
                              draws[i][2] * 2000 - 100000, 0 >>,
              velocity |-> << 0 - BaseVelocity, 0, 0 >> ]]]

\* The body of the forEach of update, for one electron.
\* d = <<jitter draw, draw for y on reset>>.  The advance along z per
\* millisecond is rounded down to 1e-6.
HallUpdateElectron(e, dt, current, magneticField, d) ==
    LET velocity == << 0 - current, e.velocity[2], e.velocity[3] >>
        B        == << 0, 0 - magneticField, 0 >>
        force    == CrossVectors(velocity, B)
        abs      == IF magneticField < 0 THEN 0 - magneticField ELSE magneticField
        x1 == e.position[1] + velocity[1] * dt * 50
        z1 == e.position[3] + ((force[3] * abs) \div 20) * dt
        y1 == e.position[2] + (d[1] - 50)
        reset == x1 < 0 - ResetPositionX
        x2 == IF reset THEN ResetPositionX ELSE x1
        y2 == IF reset THEN d[2] * 2000 - 100000 ELSE y1
        z2 == IF reset THEN 0 ELSE z1
    IN [e EXCEPT !.velocity = velocity,
                 !.position = << x2, Clamp(y2, 0 - HallYLimit, HallYLimit),
                                 Clamp(z2, 0 - HallZLimit, HallZLimit) >>]

\* Mutant of HallUpdate: isRunning is not looked at.
HallUpdateIgnoresPause(s, deltaTime, d) ==
    [s EXCEPT !.electrons =
        [i \in 1..Len(s.electrons) |->
            HallUpdateElectron(s.electrons[i], MathMin(deltaTime, HallDtCap),
                               s.current, s.magneticField, d)]]

\* update(deltaTime): if (!this.isRunning) return; dt = min(deltaTime, 0.1).
\* Every electron reads the pair of draws d.
HallUpdate(s, deltaTime, d) ==
    IF ~s.isRunning
    THEN s
    ELSE [s EXCEPT !.electrons =
            [i \in 1..Len(s.electrons) |->
                HallUpdateElectron(s.electrons[i], MathMin(deltaTime, HallDtCap),
                                   s.current, s.magneticField, d)]]

\* k calls of update within one browser frame: the first with the time
\* elapsed since the previous frame, the others with no time elapsed.
RECURSIVE HallUpdateTimes(_, _, _, _)
HallUpdateTimes(s, k, deltaTime, d) ==
    IF k = 0 THEN s
    ELSE HallUpdateTimes(HallUpdate(s, deltaTime, d), k - 1, 0, d)

\* The body of the animation effect: frameId = requestAnimationFrame(animate),
\* with animate closing over isRunning of this render.
StartLoop(p) ==
    [p EXCEPT !.effect = @ + 1,
              !.requests = @ \cup {[ id |-> p.nextId, effect |-> p.effect + 1,
                                     running |-> p.isRunning ]},
              !.frameId = p.nextId, !.firstId = p.nextId,
              !.nextId = @ + 1]

\* Mutant of RequestsAfterCleanup: the cleanup cancels the id of the first
\* request of its effect run.
RequestsAfterStaleCleanup(p) == {r \in p.requests : r.id # p.firstId}

\* The cleanup of the animation effect: if (frameId) cancelAnimationFrame(frameId),
\* frameId being the variable animate assigns at every request.
RequestsAfterCleanup(p) == {r \in p.requests : r.id # p.frameId}

\* A change of isRunning or magneticField: cleanup, then the effect again.
RerunAnimationEffect(p) ==
    StartLoop([p EXCEPT !.requests = RequestsAfterCleanup(p)])

\* The effect on [current, magneticField, isRunning].
ParameterSync(p) ==
    [p EXCEPT !.sim = [@ EXCEPT !.current = p.current,
                                !.magneticField = p.magneticField,
                                !.isRunning = p.isRunning]]

Stepped(p, op) == [p EXCEPT !.n = @ + 1, !.last = [NoPanelCall EXCEPT !.op = op]]

\* First commit: the mount effect builds the simulation and sets its
\* parameters, the animation effect requests the first frame, the parameter
\* effect sets the parameters again.
PanelMount(draws) ==
    /\ ~panel.mounted
    /\ panel.sim = NoHall
    /\ panel' = LET p1 == [panel EXCEPT !.mounted = TRUE,
                                        !.sim = HallInitializeElectrons(NoHall, draws)]
                IN Stepped(ParameterSync(StartLoop(ParameterSync(p1))), "mount")
    /\ UNCHANGED <<simVars, widget>>

\* The button: setIsRunning(prev => !prev).
PanelToggle ==
    /\ panel.mounted
    /\ panel' = LET p1 == [panel EXCEPT !.isRunning = ~@]
                IN Stepped(ParameterSync(RerunAnimationEffect(p1)), "toggle")
    /\ UNCHANGED <<simVars, widget>>

\* The field slider moved to a new value.
PanelSetMagneticField(value) ==
    /\ panel.mounted
    /\ value # panel.magneticField
    /\ panel' = LET p1 == [panel EXCEPT !.magneticField = value]
                IN Stepped(ParameterSync(RerunAnimationEffect(p1)), "field")
    /\ UNCHANGED <<simVars, widget>>

\* The current slider moved to a new value: only the parameter effect runs.
PanelSetCurrent(value) ==
    /\ panel.mounted
    /\ value # panel.current
    /\ panel' = LET p1 == [panel EXCEPT !.current = value]
                IN Stepped(ParameterSync(p1), "current")
    /\ UNCHANGED <<simVars, widget>>

\* One browser frame: every callback held is run.  Each computes
\* deltaTime = min(elapsed, 0.1), calls simulation.update if the isRunning of
\* its closure is true, and requests the next frame into its frameId.
PanelFrame(elapsed, d) ==
    /\ panel.mounted
    /\ panel.requests # {}
    /\ panel' =
        LET held    == panel.requests
            k       == Cardinality({r \in held : r.running})
            rank(r) == Cardinality({q \in held : q.id < r.id})
            again   == {[ id |-> panel.nextId + rank(r), effect |-> r.effect,
                          running |-> r.running ] : r \in held}
            mine    == {r \in again : r.effect = panel.effect}
        IN [panel EXCEPT
              !.sim = HallUpdateTimes(@, k, MathMin(elapsed, FrameDtCap), d),
              !.requests = again,
              !.frameId = IF mine = {} THEN @ ELSE (CHOOSE r \in mine : TRUE).id,
              !.nextId = @ + Cardinality(held),
              !.n = @ + 1,
              !.last = [NoPanelCall EXCEPT !.op = "frame",
                                           !.dt = MathMin(elapsed, FrameDtCap),
                                           !.before = panel.sim.electrons,
                                           !.running = panel.sim.isRunning,
                                           !.updates = k]]
    /\ UNCHANGED <<simVars, widget>>

\* The component in use: mounted, paused and resumed, sliders moved, frames
\* drawn.
NextPanel ==
    \/ \E d \in PanelDraw : PanelMount(<<d>>)
    \/ /\ panel.n < MaxPanelSteps
       /\ PanelToggle
    \/ /\ panel.n < MaxPanelSteps
       /\ \E v \in PanelFields : PanelSetMagneticField(v)
    \/ /\ panel.n < MaxPanelSteps
       /\ \E v \in PanelCurrents : PanelSetCurrent(v)
    \/ /\ panel.n < MaxPanelSteps
       /\ \E e \in PanelElapsed, d \in PanelDraw : PanelFrame(e, d)

SpecPanel == Init /\ [][NextPanel]_vars

\* The simulation used directly.
HallCreate(draws) ==
    /\ ~panel.mounted
    /\ panel.sim = NoHall
    /\ panel' = Stepped([panel EXCEPT !.sim = HallInitializeElectrons(NoHall, draws)],
                        "initialize")
    /\ UNCHANGED <<simVars, widget>>

\* setCurrent(value)
HallSetCurrent(value) ==
    /\ panel.sim.electrons # <<>>
    /\ value # panel.sim.current
    /\ panel' = [panel EXCEPT !.sim.current = value, !.n = @ + 1,
                              !.last.op = "setCurrent"]
    /\ UNCHANGED <<simVars, widget>>

\* setMagneticField(value)
HallSetMagneticField(value) ==
    /\ panel.sim.electrons # <<>>
    /\ value # panel.sim.magneticField
    /\ panel' = [panel EXCEPT !.sim.magneticField = value, !.n = @ + 1,
                              !.last.op = "setMagneticField"]
    /\ UNCHANGED <<simVars, widget>>

\* setIsRunning(value)
HallSetIsRunning(value) ==
    /\ panel.sim.electrons # <<>>
    /\ value # panel.sim.isRunning
    /\ panel' = [panel EXCEPT !.sim.isRunning = value, !.n = @ + 1,
                              !.last.op = "setIsRunning",
                              !.last.since = 0,
                              !.last.skipped = IF value THEN @ ELSE 0]
    /\ UNCHANGED <<simVars, widget>>

\* update(deltaTime)
HallUpdateCall(deltaTime, d) ==
    /\ panel.sim.electrons # <<>>
    /\ panel' = [panel EXCEPT
                   !.sim = HallUpdate(@, deltaTime, d),
                   !.n = @ + 1,
                   !.last = [@ EXCEPT !.op = "update", !.dt = deltaTime,
                                      !.before = panel.sim.electrons,
                                      !.running = panel.sim.isRunning,
                                      !.updates = 1,
                                      !.skipped = IF panel.sim.isRunning THEN @ ELSE @ + 1,
                                      !.since = IF panel.sim.isRunning THEN @ + 1 ELSE @]]
    /\ UNCHANGED <<simVars, widget>>

NextPause ==
    \/ \E d \in PanelDraw : HallCreate(<<d>>)
    \/ /\ panel.n < MaxPauseSteps
       /\ \E v \in PanelCurrents : HallSetCurrent(v)
    \/ /\ panel.n < MaxPauseSteps
       /\ \E v \in PanelFields : HallSetMagneticField(v)
    \/ /\ panel.n < MaxPauseSteps
       /\ \E v \in BOOLEAN : HallSetIsRunning(v)
    \/ /\ panel.n < MaxPauseSteps
       /\ \E dt \in HallDeltaTimes, d \in PanelDraw : HallUpdateCall(dt, d)

SpecPause == Init /\ [][NextPause]_vars

(***************************************************************************)
(* Vocabulary of the properties                                            *)
(***************************************************************************)
\* A scalar input as the specification reads it: NaN and negatives are 0.
Clamped(v) == IF v = NaN \/ v < 0 THEN 0 ELSE v

\* The step is an updateElectrons call.
Updated == steps' = steps + 1

\* The clamped current of the updateElectrons call before this step, and of
\* the call this step makes.
PrevCurrent == Clamped(call.args[2])
ThisCurrent == Clamped(call'.args[2])

\* deltaTime as the call this step makes integrates it.
ThisDt == IF call'.args[1] < DtCap THEN call'.args[1] ELSE DtCap

\* The clamped magnetic field of the call this step makes.
ThisField == Clamped(call'.args[3])

\* Accumulation as the claims define it, for the call this step makes.
ThisAccumulation == ThisField > 100 /\ ThisCurrent > 10

\* Whether electron i passes x = -2.5 in the call this step makes.
Passes(i) == electrons[i].position[1] - ThisCurrent * ThisDt * 15 < 0 - XWrap

\* The lateral coordinate of electron i after the advance of the call this
\* step makes, before any clamp.
Deflected(i) ==
    IF ThisField > 1
    THEN electrons[i].position[3] + ((0 - ThisCurrent * ThisField * ThisDt * 12) \div 2500)
    ELSE electrons[i].position[3]

\* v held within [-lim, lim]
Within(v, lim) == IF v < 0 - lim THEN 0 - lim ELSE IF v > lim THEN lim ELSE v

\* Two results of updateElectrons leave the same simulation and renderer state.
SameState(r1, r2) ==
    /\ r1.electrons = r2.electrons
    /\ r1.lastCurrentVal = r2.lastCurrentVal
    /\ r1.movementEnabled = r2.movementEnabled
    /\ r1.electronsMesh = r2.electronsMesh
    /\ r1.electronsGlow = r2.electronsGlow
    /\ r1.electronsMaterial = r2.electronsMaterial

(***************************************************************************)
(* C1  Boundedness.  With deltaTime >= 0, when an updateElectrons call     *)
(* returns every particle has x in [-2.5, 2.5], y in [-0.2, 0.2] and z in  *)
(* [-0.4, 0.4], or z within 0.4 + magneticField/1000 when accumulation     *)
(* (field > 10 and current > 1) was active in that call.                   *)
(***************************************************************************)
C1_Boundedness ==
    call.op = "update" =>
        \A i \in 1..Len(electrons) :
            LET p == electrons[i].position
                c == Clamped(call.args[2])
                f == Clamped(call.args[3])
                zmax == IF f > 100 /\ c > 10 THEN 400000 + f * 100 ELSE 400000
            IN /\ p[1] >= -2500000 /\ p[1] <= 2500000
               /\ p[2] >= -200000 /\ p[2] <= 200000
               /\ p[3] >= 0 - zmax /\ p[3] <= zmax

\* A call with accumulation active wrapped one particle and left another
\* beyond the ordinary lateral limit.
C1_Witness ==
    /\ call.op = "update"
    /\ Clamped(call.args[3]) > 100 /\ Clamped(call.args[2]) > 10
    /\ call.wrapped # {}
    /\ \E i \in 1..Len(electrons) : electrons[i].position[3] < -400000

(***************************************************************************)
(* C2  Zero-current freeze zeroes velocities.  When the clamped current    *)
(* was > 0.1 in one call and is <= 0.1 in the next, every particle's       *)
(* velocity is the zero vector when that next call returns.                *)
(***************************************************************************)
C2_FreezeZeroesVelocity ==
    [][(Updated /\ PrevCurrent > 1 /\ ThisCurrent <= 1) =>
        \A i \in 1..Len(electrons') : electrons'[i].velocity = <<0, 0, 0>>]_vars

(***************************************************************************)
(* C3  Redistribution exactly once per falling edge.  A call runs          *)
(* resetElectronPositions once if the previous call's clamped current was  *)
(* > 0.1 and its own is <= 0.1 (0.1 itself counts as frozen), and not at   *)
(* all otherwise.                                                          *)
(***************************************************************************)
C3_ResetOncePerFallingEdge ==
    [][Updated =>
        call'.resets = IF PrevCurrent > 1 /\ ThisCurrent <= 1 THEN 1 ELSE 0]_vars

\* A call with current exactly 0.1 after a flowing call redistributed.
C3_Witness ==
    /\ call.op = "update" /\ call.resets = 1
    /\ call.args[2] = 1 /\ call.before > 1
    /\ Len(electrons) = 2

(***************************************************************************)
(* C4  Frozen steps are motionless.  A call whose clamped current is       *)
(* <= 0.1 and that is not a falling edge leaves every particle's position  *)
(* and velocity unchanged; it publishes the positions with a scale within  *)
(* 0.05 of 1 and sets the dim emissive hint.                               *)
(***************************************************************************)
C4_FrozenStepsMotionless ==
    [][(Updated /\ PrevCurrent <= 1 /\ ThisCurrent <= 1) =>
        /\ Len(electrons') = Len(electrons)
        /\ \A i \in 1..Len(electrons) :
            /\ electrons'[i].position = electrons[i].position
            /\ electrons'[i].velocity = electrons[i].velocity
            /\ electronsMesh.present =>
                /\ electronsMesh'.instances[i].position = electrons[i].position
                /\ electronsMesh'.instances[i].scale >= 950000
                /\ electronsMesh'.instances[i].scale <= 1050000
        /\ (electronsMaterial.present /\ Len(electrons) > 0) =>
            /\ electronsMaterial'.emissive = <<100, 100, 500>>
            /\ electronsMaterial'.emissiveIntensity = 200]_vars

\* A frozen call that follows the freeze of a particle that had flowed at 15.
C4_Witness ==
    /\ call.op = "update" /\ ~call.flowing /\ call.resets = 0
    /\ call.before <= 1 /\ steps = 3
    /\ Len(electrons) = 1
    /\ electrons[1].velocity[1] = -150
    /\ electronsMaterial.emissiveIntensity = 200

(***************************************************************************)
(* C5  Resume continuity.  On the call where the clamped current rises     *)
(* from <= 0.1 to > 0.1 nothing is redistributed, the call integrates,     *)
(* and every particle that does not wrap moves along x by exactly          *)
(* 0.1 * current * 0.033 * 1.5 against the current direction; for currents *)
(* up to 15 no particle wraps.                                             *)
(***************************************************************************)
C5_ResumeContinuity ==
    [][(Updated /\ PrevCurrent <= 1 /\ ThisCurrent > 1) =>
        /\ call'.resets = 0
        /\ Len(electrons') = Len(electrons)
        /\ \A i \in 1..Len(electrons) :
            LET dx == electrons[i].position[1] - electrons'[i].position[1]
            IN /\ electrons'[i].velocity[1] = 0 - ThisCurrent
               /\ electrons'[i].position[1] # 2500000 => dx = ThisCurrent * 33 * 15
               /\ ThisCurrent <= 150 => (dx >= 0 /\ dx <= ThisCurrent * 33 * 15)]_vars

\* The current rose to 15 on the third call, from a frozen call.
C5_Witness ==
    /\ call.op = "update" /\ call.flowing /\ call.before <= 1
    /\ call.args[2] = 150 /\ steps = 3
    /\ Len(electrons) = 1

(***************************************************************************)
(* C6  Zero-field no-deflection.  With magneticField = 0 and current = 5   *)
(* on every call, the z of every particle equals the value it had right    *)
(* after initializeElectrons: as stated, and as amended to the particles   *)
(* that have not wrapped since.                                            *)
(***************************************************************************)
C6_LateralNeverChanges ==
    call.op = "update" =>
        \A i \in 1..Len(electrons) :
            electrons[i].position[3] = electrons[i].initialPosition[3]

C6_LateralKeptUntilWrap ==
    call.op = "update" =>
        \A i \in 1..Len(electrons) :
            /\ i \notin call.everWrapped =>
                electrons[i].position[3] = electrons[i].initialPosition[3]
            /\ electrons[i].position[3] >= -200000
            /\ electrons[i].position[3] <= 200000

\* After at least 21 calls the particle has wrapped and got another z.
C6_Witness ==
    /\ call.op = "update" /\ steps >= 21
    /\ 1 \in call.everWrapped
    /\ electrons[1].position[3] # electrons[1].initialPosition[3]


(***************************************************************************)
(* C7  Input robustness.  In every reachable state a call with current     *)
(* NaN or negative leaves the state the same call with current = 0 leaves, *)
(* and a call with magneticField NaN or negative the state the same call   *)
(* with magneticField = 0 leaves (same Math.random() results).             *)
(***************************************************************************)
C7_InvalidScalarsActAsZero ==
    \A dt \in DeltaTimes, t \in Times :
        /\ \A bad \in {NaN, -50, -1}, b \in RobustFields :
            \A d \in UpdateDraws(dt, 0) \cup UpdateDraws(dt, bad) :
                SameState(UpdateResult(dt, bad, b, t, d), UpdateResult(dt, 0, b, t, d))
        /\ \A bad \in {NaN, -10, -1}, c \in RobustCurrents :
            \A d \in UpdateDraws(dt, c) :
                SameState(UpdateResult(dt, c, bad, t, d), UpdateResult(dt, c, 0, t, d))

\* A call with current = NaN after a flowing call froze and redistributed
\* the particle.
C7_Witness ==
    /\ call.op = "update" /\ call.args[2] = NaN
    /\ call.before > 1 /\ call.resets = 1
    /\ lastCurrentVal = 0 /\ ~movementEnabled
    /\ Len(electrons) = 1

(***************************************************************************)
(* C8  Invalid deltaTime is coerced to 0.  A call with a negative or NaN   *)
(* deltaTime moves no particle along x and leaves x in [-2.5, 2.5].        *)
(***************************************************************************)
C8_InvalidDeltaTimeActsAsZero ==
    [][(Updated /\ (call'.args[1] = NaN \/ call'.args[1] < 0)) =>
        \A i \in 1..Len(electrons) :
            /\ electrons'[i].position[1] = electrons[i].position[1]
            /\ electrons'[i].position[1] >= -2500000
            /\ electrons'[i].position[1] <= 2500000]_vars

(***************************************************************************)
(* C9  deltaTime cap.  For deltaTime >= 0 a flowing call moves every       *)
(* particle that does not wrap by exactly                                  *)
(* 0.1 * current * min(deltaTime, 0.033) * 1.5 against x, and a call with  *)
(* deltaTime = 10 leaves the state a call with deltaTime = 0.033 leaves.   *)
(***************************************************************************)
C9_StallSame ==
    \A c \in {50, 1500}, b \in {0, 1000}, t \in Times :
        \A d \in UpdateDraws(33, c) \cup UpdateDraws(10000, c) :
            SameState(UpdateResult(10000, c, b, t, d), UpdateResult(33, c, b, t, d))

C9_DeltaTimeCapped ==
    /\ []C9_StallSame
    /\ [][(Updated /\ ThisCurrent > 1) =>
            \A i \in 1..Len(electrons) :
                LET dt  == call'.args[1]
                    cap == IF dt < 33 THEN dt ELSE 33
                    to  == electrons[i].position[1] - ThisCurrent * cap * 15
                IN to >= -2500000 => electrons'[i].position[1] = to]_vars

\* A call with deltaTime = 10 s moved two particles without wrapping any.
C9_Witness ==
    /\ call.op = "update" /\ call.flowing /\ call.args[1] = 10000
    /\ call.wrapped = {} /\ Len(electrons) = 2
    /\ \E i \in 1..2 : electrons[i].position[1] = -2000000 - call.args[2] * 33 * 15

(***************************************************************************)
(* C10  Particle count is stable.  The array holds exactly the count given *)
(* to the last initializeElectrons (none after dispose), with ids 0..n-1,  *)
(* and an updateElectrons call keeps its length and every particle's       *)
(* identity, wrapped or not.                                               *)
(***************************************************************************)
C10_CountStable ==
    /\ [](/\ Len(electrons) = call.count
          /\ \A i \in 1..Len(electrons) : electrons[i].id = i - 1)
    /\ [][Updated =>
            /\ Len(electrons') = Len(electrons)
            /\ \A i \in 1..Len(electrons) :
                /\ electrons'[i].id = electrons[i].id
                /\ electrons'[i].initialPosition = electrons[i].initialPosition]_vars

\* The second call on two particles redistributed them after a wrap.
C10_Witness ==
    /\ call.op = "update" /\ steps = 2 /\ call.count = 2
    /\ call.resets = 1
    /\ call.everWrapped # {}
    /\ Len(electrons) = 2

(***************************************************************************)
(* C11  Drift is linear in current.  After every flowing call each         *)
(* particle's velocity is (-0.1 * current, 0, 0), and the x of each        *)
(* particle that does not pass -2.5 has decreased by 0.1 * current * dt *  *)
(* 1.5 (dt the deltaTime capped at 0.033); in the first call after         *)
(* initializeElectrons with deltaTime 0.016 and current 7 every x has      *)
(* decreased by an amount in [0, 7 * 1.5 * 0.016 * 1.1].                   *)
(***************************************************************************)
C11_DriftLinear ==
    [][(Updated /\ call'.flowing) =>
        /\ Len(electrons') = Len(electrons)
        /\ \A i \in 1..Len(electrons) :
            LET x    == electrons[i].position[1]
                xNew == electrons'[i].position[1]
                adv  == ThisCurrent * ThisDt * 15
            IN /\ electrons'[i].velocity = <<0 - ThisCurrent, 0, 0>>
               /\ (x - adv >= 0 - XWrap) => (xNew = x - adv)
               /\ (call.op = "initialize" /\ call'.args[1] = 16 /\ ThisCurrent = 70)
                      => (x - xNew >= 0 /\ x - xNew <= 184800)]_vars

\* The documented scenario on two particles: deltaTime 0.016, current 7,
\* field 49.3, straight after initializeElectrons.
C11_Witness ==
    /\ call.op = "update" /\ call.flowing /\ steps = 1
    /\ call.args = <<16, 70, 493, 0>>
    /\ Len(electrons) = 2
    /\ \A i \in 1..2 : /\ electrons[i].velocity = <<-70, 0, 0>>
                       /\ electrons[i].initialPosition[1] - electrons[i].position[1] = 16800

(***************************************************************************)
(* C12  Initialization yields zero velocity.  Every particle of the array  *)
(* initializeElectrons returns has velocity (0, 0, 0) and a position in    *)
(* x in [-2, 2], y in [-0.1, 0.1], z in [-0.2, 0.2].                       *)
(***************************************************************************)
C12_InitialVelocityZero ==
    call.op = "initialize" =>
        \A i \in 1..Len(electrons) :
            /\ electrons[i].velocity = <<0, 0, 0>>
            /\ electrons[i].position[1] >= -2000000 /\ electrons[i].position[1] <= 2000000
            /\ electrons[i].position[2] >= -100000 /\ electrons[i].position[2] <= 100000
            /\ electrons[i].position[3] >= -200000 /\ electrons[i].position[3] <= 200000

(***************************************************************************)
(* C13  initializeElectrons disposes the prior batch first.  The scene     *)
(* holds at most one electron mesh and one glow mesh of the simulation,    *)
(* namely the ones the simulation refers to; after initializeElectrons(n)  *)
(* the array holds n fresh particles with ids 0..n-1 and both meshes hold  *)
(* n instances, the transforms of these particles.                         *)
(***************************************************************************)
C13_OneBatch ==
    /\ scene.mesh = (IF electronsMesh.present THEN 1 ELSE 0)
    /\ scene.glow = (IF electronsGlow.present THEN 1 ELSE 0)
    /\ call.op = "initialize" =>
        /\ Len(electrons) = call.count
        /\ electronsMesh.present /\ electronsGlow.present
        /\ Len(electronsMesh.instances) = call.count
        /\ Len(electronsGlow.instances) = call.count
        /\ \A i \in 1..Len(electrons) :
            /\ electrons[i].id = i - 1
            /\ electrons[i].position = electrons[i].initialPosition
            /\ electronsMesh.instances[i] = [position |-> electrons[i].position,
                                             scale |-> UnitScale]
            /\ electronsGlow.instances[i] = electronsMesh.instances[i]

\* initializeElectrons(1) replaced a batch that had been stepped.
C13_Witness ==
    /\ call.op = "initialize" /\ call.replaced /\ call.count = 1
    /\ steps >= 1 /\ lastCurrentVal > CurrentThreshold
    /\ scene = [mesh |-> 1, glow |-> 1]

(***************************************************************************)
(* C14  Teardown leaves a re-initialisable state.  After dispose() the     *)
(* array is empty, the mesh and material references are null and the scene *)
(* holds no mesh of the simulation; and the first updateElectrons call     *)
(* after an initializeElectrons behaves as after the first one: it does    *)
(* not redistribute, and with current <= 0.1 it leaves every particle      *)
(* where initializeElectrons put it.                                       *)
(***************************************************************************)
C14_ReinitialisedAsFirst ==
    /\ [](call.op = "dispose" =>
            /\ electrons = <<>>
            /\ ~electronsMesh.present /\ ~electronsGlow.present
            /\ ~electronsMaterial.present
            /\ scene = [mesh |-> 0, glow |-> 0])
    /\ [][(call.op = "initialize" /\ Updated) =>
            /\ call'.resets = 0
            /\ ThisCurrent <= CurrentThreshold =>
                  \A i \in 1..Len(electrons) :
                      electrons'[i].position = electrons[i].position]_vars

(***************************************************************************)
(* C15  Lifecycle misuse fails loudly.  updateElectrons called while the   *)
(* simulation holds no batch (before initializeElectrons, after dispose)   *)
(* does not return normally: no such call completes.                       *)
(***************************************************************************)
C15_MisuseRejected ==
    [][Updated => electronsMesh.present]_vars

(***************************************************************************)
(* C16  Real-time parameter updates.  Every updateElectrons call made by   *)
(* the animation loop of HallEffect3D passes the current and the magnetic  *)
(* field the sliders were last moved to.                                   *)
(***************************************************************************)
C16_FramesUseSliderValues ==
    [][(Updated /\ widget'.by = "frame") =>
        /\ call'.args[2] = widget.current
        /\ call'.args[3] = widget.magneticField]_vars

(***************************************************************************)
(* C17  Accumulation flag.  In a flowing call accumulation is active       *)
(* exactly when the clamped field is > 10 and the clamped current is > 1:  *)
(* a particle that wraps gets z in [-0.4, -0.2] when it is active and in   *)
(* [-0.2, 0.2] when it is not, and a particle that does not wrap has its z *)
(* clamped to 0.4 + (field / 100) * 0.1 when it is active and to 0.4 when  *)
(* it is not.                                                              *)
(***************************************************************************)
C17_AccumulationFlag ==
    [][(Updated /\ call'.flowing) =>
        \A i \in 1..Len(electrons) :
            LET z == electrons'[i].position[3]
                lim == IF ThisAccumulation THEN ZLimit + ThisField * 100 ELSE ZLimit
            IN IF Passes(i)
               THEN IF ThisAccumulation
                    THEN z >= -400000 /\ z <= -200000
                    ELSE z >= -200000 /\ z <= 200000
               ELSE z = Within(Deflected(i), lim)]_vars

\* With the field exactly 10 and current 150 accumulation is off: a
\* particle pushed beyond -0.4 is held at -0.4.
C17_Witness ==
    /\ call.op = "update" /\ call.flowing
    /\ call.args[2] = 1500 /\ call.args[3] = 100
    /\ \E i \in 1..Len(electrons) :
        /\ i \notin call.wrapped
        /\ electrons[i].position[3] = -400000

(***************************************************************************)
(* C18  Drift-axis wrap.  In a flowing call a particle whose x falls below *)
(* -2.5 ends the call at x = 2.5 with y in [-0.1, 0.1] and z in            *)
(* [-0.4, -0.2] under accumulation and in [-0.2, 0.2] otherwise; any other *)
(* particle is not resampled: its x is its old x less the advance, its y   *)
(* moved by the jitter of at most 0.00005, its z is the deflected z held   *)
(* within the lateral limit.                                               *)
(***************************************************************************)
C18_WrapResamples ==
    [][(Updated /\ call'.flowing) =>
        \A i \in 1..Len(electrons) :
            LET p == electrons[i].position
                q == electrons'[i].position
                lim == IF ThisAccumulation THEN ZLimit + ThisField * 100 ELSE ZLimit
            IN IF Passes(i)
               THEN /\ q[1] = XWrap
                    /\ q[2] >= -100000 /\ q[2] <= 100000
                    /\ IF ThisAccumulation
                       THEN q[3] >= -400000 /\ q[3] <= -200000
                       ELSE q[3] >= -200000 /\ q[3] <= 200000
               ELSE /\ q[1] = p[1] - ThisCurrent * ThisDt * 15
                    /\ q[1] >= 0 - XWrap
                    /\ q[2] - p[2] <= 50 /\ p[2] - q[2] <= 50
                    /\ q[3] = Within(Deflected(i), lim)]_vars

\* Without a field one of two particles wrapped to x = 2.5 and got the
\* greatest z of the ordinary range; the other only advanced.
C18_Witness ==
    /\ call.op = "update" /\ call.flowing /\ call.args[3] = 0
    /\ Len(electrons) = 2 /\ call.wrapped = {1}
    /\ electrons[1].position[1] = XWrap
    /\ electrons[1].position[3] = 196000
    /\ electrons[2].position[1] < electrons[2].initialPosition[1]

(***************************************************************************)
(* C19  Published transforms match particle state.  After every            *)
(* updateElectrons call on an initialised simulation, instance i of the    *)
(* electron mesh and of the glow mesh holds the position particle i has at *)
(* the end of that call.                                                   *)
(***************************************************************************)
C19_PublishedMatchesState ==
    (call.op = "update" /\ electronsMesh.present /\ electronsGlow.present) =>
        /\ Len(electronsMesh.instances) = Len(electrons)
        /\ Len(electronsGlow.instances) = Len(electrons)
        /\ \A i \in 1..Len(electrons) :
            /\ electronsMesh.instances[i].position = electrons[i].position
            /\ electronsGlow.instances[i].position = electrons[i].position

\* The call in which the current fell redistributed two particles, and both
\* meshes hold the new positions.
C19_Witness ==
    /\ call.op = "update" /\ call.resets = 1 /\ Len(electrons) = 2
    /\ electronsMesh.present
    /\ \E i \in 1..2 :
        /\ electrons[i].position # electrons[i].initialPosition
        /\ electronsMesh.instances[i].position = electrons[i].position
        /\ electronsGlow.instances[i].position = electrons[i].position

(***************************************************************************)
(* C20  One renderer update per particle per frame.  In every              *)
(* updateElectrons call on an initialised simulation setMatrixAt is called *)
(* on the electron mesh exactly once for each index, also in the call in   *)
(* which the current falls to <= 0.1.                                      *)
(***************************************************************************)
C20_OneWritePerCall ==
    (call.op = "update" /\ electronsMesh.present) => call.writes = 1

(***************************************************************************)
(* C21  The cosmetic phase does not feed back into physics.  From every    *)
(* reachable state, two updateElectrons calls with the same deltaTime,     *)
(* current, field and Math.random() results but time 0 and time 0.5 leave  *)
(* the same particles (positions, velocities), the same lastCurrentVal and *)
(* movementEnabled, the same material and the same published positions.    *)
(***************************************************************************)
C21_ClockIsCosmetic ==
    \A dt \in DeltaTimes, c \in {0, 50}, b \in {0, 1000} :
        \A d \in UpdateDraws(dt, c) :
            LET r1 == UpdateResult(dt, c, b, 0, d)
                r2 == UpdateResult(dt, c, b, 500, d)
            IN /\ r1.electrons = r2.electrons
               /\ r1.lastCurrentVal = r2.lastCurrentVal
               /\ r1.movementEnabled = r2.movementEnabled
               /\ r1.electronsMaterial = r2.electronsMaterial
               /\ \A i \in 1..Len(r1.electronsMesh.instances) :
                    /\ r1.electronsMesh.instances[i].position
                         = r2.electronsMesh.instances[i].position
                    /\ r1.electronsGlow.instances[i].position
                         = r2.electronsGlow.instances[i].position

\* A flowing call at time 0.5 on two particles published a scale other than 1.
C21_Witness ==
    /\ call.op = "update" /\ call.flowing /\ call.args[4] = 500
    /\ Len(electrons) = 2
    /\ electronsMesh.instances[1].scale # UnitScale
    /\ electronsMesh.instances[1].position = electrons[1].position

(***************************************************************************)
(* C22  Monotonic deflection.  In a flowing call with current c and capped *)
(* step dt, the lateral advance applied before clamping has magnitude 0    *)
(* for a field of at most 0.1 and 0.2 * 0.1 * c * (field / 50) * dt * 1.2  *)
(* (here c * field * dt * 12 / 2500 millionths) above it, so for fixed c   *)
(* and dt it does not decrease when the field grows; a particle that does  *)
(* not wrap ends at that advance applied to its z, clamped to the limit.   *)
(***************************************************************************)
C22_MonotonicDeflection ==
    [][(Updated /\ call'.flowing) =>
        \A i \in 1..Len(electrons) :
            LET v      == electrons'[i].velocity
                mag(b) == IF b > 1 THEN (ThisCurrent * b * ThisDt * 12) \div 2500 ELSE 0
                lim    == IF ThisAccumulation THEN ZLimit + ThisField * 100 ELSE ZLimit
            IN /\ \A b \in DeflectFields :
                    0 - LateralAdvance(v, ThisDt, b) = mag(b)
               /\ \A b1, b2 \in DeflectFields :
                    (b1 <= b2) => (0 - LateralAdvance(v, ThisDt, b1)
                                     <= 0 - LateralAdvance(v, ThisDt, b2))
               /\ ~Passes(i) =>
                    electrons'[i].position[3]
                        = Within(electrons[i].position[3] - mag(ThisField), lim)]_vars

\* A flowing call with current 5, field 2.5 and dt 0.016 moved both
\* particles 0.00024 down z; none wrapped and none was clamped.
C22_Witness ==
    /\ call.op = "update" /\ call.flowing /\ steps = 1
    /\ call.args = <<16, 50, 25, 0>>
    /\ call.wrapped = {}
    /\ Len(electrons) = 2
    /\ \A i \in 1..2 :
         electrons[i].position[3] = electrons[i].initialPosition[3] - 96

C24_FlagFollowsTransitions ==
    [][Updated =>
        /\ (ThisCurrent > CurrentThreshold) => movementEnabled'
        /\ (ThisCurrent <= CurrentThreshold) =>
              (movementEnabled' = IF lastCurrentVal > CurrentThreshold
                                  THEN FALSE ELSE movementEnabled)]_vars

\* The first call on a freshly initialised simulation is frozen, moved
\* nothing, and the flag is still true.
C24_Witness ==
    /\ call.op = "update" /\ ~call.flowing /\ call.resets = 0
    /\ steps = 1 /\ lastCurrentVal = 0
    /\ Len(electrons) > 0
    /\ movementEnabled

C24_FlagMirrorsMode ==
    (call.op = "update") =>
        (movementEnabled <=> Clamped(call.args[2]) > CurrentThreshold)

(***************************************************************************)
(* C25  Re-initialisation resets the transition controller.  After every   *)
(* initializeElectrons the movement flag and the remembered previous       *)
(* current are those of a freshly constructed simulation (true and 0), so  *)
(* the first call afterwards redistributes in the same cases as the first  *)
(* call on a fresh simulation, that is, never.                             *)
(***************************************************************************)
C25_InitialiseResetsController ==
    (call.op = "initialize") => (lastCurrentVal = 0 /\ movementEnabled)

(***************************************************************************)
(* C26  Deflection points to the accumulation side.  As stated (a particle *)
(* that does not wrap never ends a flowing call with a larger z) the claim *)
(* is C26_LateralNeverRises.  What the code keeps: the particle ends at    *)
(* most at the larger of its old z and the lower clamp limit of this call; *)
(* z falls only when the field is above 0.1, and rises only when it        *)
(* started below the lower limit of this call (left there by an earlier    *)
(* call with a wider limit), in which case it ends exactly on that limit.  *)
(***************************************************************************)
C26_LateralFallsOrIsClamped ==
    [][(Updated /\ call'.flowing) =>
        \A i \in 1..Len(electrons) \ call'.wrapped :
            LET z    == electrons[i].position[3]
                zNew == electrons'[i].position[3]
                lim  == IF ThisAccumulation THEN ZLimit + ThisField * 100 ELSE ZLimit
            IN /\ (z >= 0 - lim) => (zNew <= z)
               /\ (z < 0 - lim) => (zNew = 0 - lim)
               /\ (zNew < z) => (ThisField > FieldThreshold)]_vars

\* A flowing call with zero field ends with a particle that never wrapped
\* exactly on z = -0.4: an earlier call with field 100 had carried it below.
C26_Witness ==
    /\ call.op = "update" /\ call.flowing
    /\ Clamped(call.args[3]) = 0
    /\ \E i \in 1..Len(electrons) \ call.everWrapped :
          electrons[i].position[3] = 0 - ZLimit

C26_LateralNeverRises ==
    [][(Updated /\ call'.flowing) =>
        \A i \in 1..Len(electrons) \ call'.wrapped :
            /\ electrons'[i].position[3] <= electrons[i].position[3]
            /\ (electrons'[i].position[3] < electrons[i].position[3])
                  => (ThisField > FieldThreshold)]_vars

(***************************************************************************)
(* C27  The widened lateral limit stays small.  Whatever field is passed   *)
(* to updateElectrons, the lateral limit of the call is at most 0.5, so    *)
(* every particle has |z| <= 0.5 at all times.                             *)
(***************************************************************************)
C27_WidenedLimitSmall ==
    \A i \in 1..Len(electrons) :
        /\ electrons[i].position[3] >= -500000
        /\ electrons[i].position[3] <= 500000

(***************************************************************************)
(* C28  No step after unmount.  Once the cleanups of HallEffect3D have run *)
(* (simulation disposed, isInitializedRef false, requested frame           *)
(* cancelled) no frame request is live, and no frame callback or parameter *)
(* effect calls updateElectrons again: every call is made while the        *)
(* component is mounted.                                                   *)
(***************************************************************************)
C28_NoStepAfterUnmount ==
    /\ [](widget.by = "cleanup" =>
            /\ ~widget.mounted /\ ~widget.raf /\ ~widget.initialized
            /\ ~widget.pending
            /\ call.op = "dispose")
    /\ [][Updated => (widget.mounted /\ widget'.mounted)]_vars

\* The component was unmounted after its loop had stepped the simulation;
\* electronsRef still holds the array of the disposed batch.
C28_Witness ==
    /\ widget.by = "cleanup" /\ ~widget.mounted
    /\ steps >= 2
    /\ widget.refLen > 0
    /\ call.op = "dispose" /\ electrons = <<>>

(***************************************************************************)
(* C29  At most one animation loop in components/HallEffect3D.  Across     *)
(* every sequence of isRunning toggles and magneticField changes, each of  *)
(* which re-runs the animation effect, the browser holds at most one frame *)
(* callback of the component, the one of the current effect run, so one    *)
(* browser frame calls simulation.update at most once.                     *)
(***************************************************************************)
C29_OneAnimationLoop ==
    /\ [](/\ Cardinality(panel.requests) <= 1
          /\ \A r \in panel.requests :
                /\ r.id = panel.frameId
                /\ r.effect = panel.effect
                /\ r.running = panel.isRunning)
    /\ [][(panel'.n = panel.n + 1 /\ panel'.last.op = "frame") =>
            panel'.last.updates <= 1]_vars

\* Mounted, a frame drawn, paused, resumed, and a frame drawn again: the
\* third run of the effect holds the only request, and the frame called
\* update once.
C29_Witness ==
    /\ panel.mounted /\ panel.effect = 3 /\ panel.nextId = 6
    /\ panel.last.op = "frame" /\ panel.last.updates = 1
    /\ Cardinality(panel.requests) = 1

(***************************************************************************)
(* C30  Pause is a no-op on state in HallEffectSimulation.  While          *)
(* isRunning is false an update(deltaTime) call changes nothing.  While it *)
(* is true (current >= 0, deltaTime >= 0), in particular in the first call *)
(* after setIsRunning(true) however large its deltaTime, the advance along *)
(* x is 0.5 * current * min(deltaTime, 0.1), at most 0.5 * current * 0.1:  *)
(* an electron ends there, or at x = 2.5 if that is beyond x = -2.5.       *)
(***************************************************************************)
C30_PauseIsNoOp ==
    [][(panel'.n = panel.n + 1 /\ panel'.last.op = "update") =>
        /\ ~panel.sim.isRunning => (panel'.sim = panel.sim)
        /\ panel.sim.isRunning =>
              /\ Len(panel'.sim.electrons) = Len(panel.sim.electrons)
              /\ \A i \in 1..Len(panel.sim.electrons) :
                    LET x    == panel.sim.electrons[i].position[1]
                        xNew == panel'.sim.electrons[i].position[1]
                        dt   == panel'.last.dt
                        adv  == panel.sim.current * (IF dt < 100 THEN dt ELSE 100) * 50
                    IN /\ adv >= 0 /\ adv <= panel.sim.current * 5000
                       /\ (x - adv >= -2500000) => (xNew = x - adv)
                       /\ (x - adv < -2500000) => (xNew = 2500000)]_vars

\* Paused, two update calls skipped, resumed, and the first call after that
\* made with deltaTime = 5 s: the electron moved 0.35 = 0.5 * 7 * 0.1.
C30_Witness ==
    /\ panel.last.op = "update" /\ panel.last.running
    /\ panel.last.skipped >= 2 /\ panel.last.since = 1
    /\ panel.last.dt = 5000
    /\ panel.sim.current = 70
    /\ Len(panel.sim.electrons) = 1
    /\ panel.sim.electrons[1].position[1]
          = panel.last.before[1].position[1] - 350000

====
